---- MODULE Spec2Model ----
(***************************************************************************)
(* Model of techniques/monte_carlo.py: the rollout sampler                 *)
(* (_monte_carlo_sample), flat Monte Carlo search                          *)
(* (monte_carlo_tree_search) and UCT search (monte_carlo_tree_search_uct). *)
(*                                                                         *)
(* The game specification object (game_spec) is an external collaborator;  *)
(* it is modelled by a small line game on a 1x3 strip: a side wins when it *)
(* owns two adjacent cells.  Board states map cells to -1, 0, +1; moves    *)
(* are (row, col) pairs, as in the docstrings of the source.               *)
(*                                                                         *)
(* Python values: None (for a move) is the empty tuple, an optional result *)
(* is <<>> (None) or <<r>>.  A defaultdict is a sequence of [k, v] records *)
(* in insertion order (Python 3.7+ dict order).  Floats of the UCT search  *)
(* are dyadic rationals and are held as integers scaled by Scale.          *)
(*                                                                         *)
(* Spec is a call of either search with uniformly random rollouts;         *)
(* PolicySpec is a call of the flat search with policy-guided rollouts,    *)
(* the policy being any 0/1 vector over the encoded move space.            *)
(***************************************************************************)
EXTENDS Integers, Sequences, FiniteSets, TLC

\* Largest number_of_samples explored.
MaxN == 4

\* Largest number_of_samples explored with policy-guided rollouts.
MaxPolicyN == 1

\* Depth of the _monte_carlo_sample recursion at which a further call raises
\* RecursionError (the interpreter's recursion limit, scaled down).
MaxDepth == 4

None == <<>>

----------------------------------------------------------------------------
(* game_spec: the external game model *)

Cells == << <<0, 0>>, <<0, 1>>, <<0, 2>> >>

CellSet == {Cells[i] : i \in 1..Len(Cells)}

Lines == { {<<0, 0>>, <<0, 1>>}, {<<0, 1>>, <<0, 2>>} }

Boards == [CellSet -> {-1, 0, 1}]

Sides == {1, -1}

has_winner(b) ==
    IF \E l \in Lines : \A c \in l : b[c] = 1 THEN <<1>>
    ELSE IF \E l \in Lines : \A c \in l : b[c] = -1 THEN <<-1>>
    ELSE None

available_moves(b) == SelectSeq(Cells, LAMBDA c : b[c] = 0)

apply_move(b, m, s) == [b EXCEPT ![m] = s]

\* encoding of a move as a flat index, from 0 in move order
tuple_move_to_flat(m) == (CHOOSE i \in 1..Len(Cells) : Cells[i] = m) - 1

flat_move_to_tuple(i) == Cells[i + 1]

\* get_stochastic_network_move: what the external policy may return, a 0/1
\* vector over the encoded move space; nothing restricts it to one legal move
PolicyOutputs == [1..Len(Cells) -> {0, 1}]

----------------------------------------------------------------------------
(* Python dict / defaultdict helpers *)

Range(s) == {s[i] : i \in 1..Len(s)}

DictHas(d, key) == \E i \in 1..Len(d) : d[i].k = key

\* d.get(key) / d[key] of a present key; the default 0 of the defaultdict
\* for an absent one (the value read, without the insertion).
DictGet(d, key) ==
    IF DictHas(d, key) THEN d[CHOOSE i \in 1..Len(d) : d[i].k = key].v ELSE 0

\* d[key] of a defaultdict: the read inserts the default for an absent key.
DictTouch(d, key) ==
    IF DictHas(d, key) THEN d ELSE Append(d, [k |-> key, v |-> 0])

\* d[key] += delta on a defaultdict.
DictAdd(d, key, delta) ==
    IF DictHas(d, key)
    THEN [i \in 1..Len(d) |-> IF d[i].k = key THEN [k |-> key, v |-> d[i].v + delta] ELSE d[i]]
    ELSE Append(d, [k |-> key, v |-> delta])

\* max(d, key=...) over items [k, num, den], one per key in dict order, the
\* key function's value being num / den: the first key whose value no other
\* key exceeds.  Divisors are positive, so values are compared by cross
\* multiplication.
PyMax(items) ==
    LET gt(a, b) == a.num * b.den > b.num * a.den
    IN  items[CHOOSE i \in 1..Len(items) :
                /\ \A j \in 1..(i - 1) : gt(items[i], items[j])
                /\ \A j \in (i + 1)..Len(items) : ~gt(items[j], items[i])].k

\* min(d, key=d.get) over the entries [k, v] of d: the first key with the
\* least value.
PyMin(d) ==
    d[CHOOSE i \in 1..Len(d) :
            /\ \A j \in 1..(i - 1) : d[j].v > d[i].v
            /\ \A j \in (i + 1)..Len(d) : d[j].v >= d[i].v].k

----------------------------------------------------------------------------
VARIABLES
    alg,                 \* which search was called: "flat" or "uct"
    board_state,         \* argument: the root board state
    side,                \* argument: the side to play at the root
    number_of_samples,   \* argument: N
    policy,              \* argument: policy-guided rollouts
    pc,                  \* position in the called function
    iter,                \* completed iterations of the for loop
    stack,               \* frames of _monte_carlo_sample
    ret,                 \* value returned by the last _monte_carlo_sample frame
    move,                \* local `move` of monte_carlo_tree_search
    move_wins,           \* flat search: defaultdict(int)
    move_samples,        \* flat search: defaultdict(int)
    retval,              \* value returned by the search
    err,                 \* exception raised by the search, "none" if none
    calls,               \* game_spec calls of the current rollout / iteration
    first_moves,         \* first moves played by the rollouts so far
    winners,             \* first moves of the rollouts that ended in a win for `side`
    selection,           \* selection rule the search ran: "none", "argmin", "argmax"
    state_results,       \* UCT: defaultdict(float), values scaled by Scale
    state_samples,       \* UCT: defaultdict(float)
    current_side,        \* UCT iteration local
    current_board_state, \* UCT iteration local
    first_unvisited_node,\* UCT iteration local
    rollout_path,        \* UCT iteration local: sequence of <<board state, side>>
    result,              \* UCT iteration local: None or <<value scaled by Scale>>
    path_idx,            \* UCT: position of the backup loop in rollout_path
    walk,                \* UCT: states entered in this iteration, [board, side, move]
    descent,             \* UCT: how the last move of the walk was chosen
    iter_result,         \* UCT: terminal result of this iteration, in -1, 0, 1
    tally,               \* UCT: per root move, iterations started with it: n, won w, drawn d
    samples_at_start     \* UCT: number of state_samples keys when the iteration began

args == <<alg, board_state, side, number_of_samples, policy>>

flat == <<stack, ret, move, move_wins, move_samples>>

history == <<first_moves, winners>>

uctLocals == <<current_side, current_board_state, first_unvisited_node, rollout_path,
               result, path_idx>>

uct == <<state_results, state_samples, uctLocals>>

uctHistory == <<walk, descent, iter_result, tally, samples_at_start>>

vars == <<args, pc, iter, flat, history, uct, uctHistory, retval, err, calls, selection>>

Call(op, b, m, s) == [op |-> op, board |-> b, move |-> m, side |-> s]

NoRet == [num |-> 0, den |-> 1, move |-> None]

NoDescent == [kind |-> "none", all_sampled |-> FALSE]

\* the state at the start of a call, the arguments being chosen
Start ==
    /\ board_state \in Boards
    /\ side \in Sides
    /\ walk = <<>>
    /\ descent = NoDescent
    /\ iter_result = 0
    /\ tally = [m \in CellSet |-> [n |-> 0, w |-> 0, d |-> 0]]
    /\ samples_at_start = 0
    /\ pc = IF alg = "flat" THEN "flat_loop" ELSE "uct_loop"
    /\ iter = 0
    /\ state_results = <<>>
    /\ state_samples = <<>>
    /\ current_side = side
    /\ current_board_state = board_state
    /\ first_unvisited_node = TRUE
    /\ rollout_path = <<>>
    /\ result = None
    /\ path_idx = 1
    /\ stack = <<>>
    /\ ret = [result |-> 0, move |-> None]
    /\ move = None
    /\ move_wins = <<>>
    /\ move_samples = <<>>
    /\ retval = NoRet
    /\ err = "none"
    /\ calls = <<>>
    /\ first_moves = {}
    /\ winners = {}
    /\ selection = "none"

\* a call of either search with uniformly random rollouts
Init ==
    /\ alg \in {"flat", "uct"}
    /\ number_of_samples \in 1..MaxN
    /\ policy = FALSE
    /\ Start

\* a call of the flat search with policy = True
PolicyInit ==
    /\ alg = "flat"
    /\ number_of_samples \in 1..MaxPolicyN
    /\ policy = TRUE
    /\ Start

----------------------------------------------------------------------------
(* _monte_carlo_sample *)

Frame(b, s) == [board_state |-> b, side |-> s, move |-> None]

Top == stack[Len(stack)]

Pop(s) == SubSeq(s, 1, Len(s) - 1)

\* slip: a rollout stops only on a full board
sample_is_terminal_full(b) == has_winner(b) # None /\ available_moves(b) = <<>>

\* lines 21-22
sample_is_terminal(b) == has_winner(b) # None

\* lines 25-26
sample_no_moves(b) == available_moves(b) = <<>>

\* lines 23 and 27: the result returned by a frame that makes no move
sample_leaf_result(b) == IF sample_is_terminal(b) THEN has_winner(b)[1] ELSE 0

\* the apply_move calls among the game_spec calls, in order
Applies(cs) == SelectSeq(cs, LAMBDA c : c.op = "apply_move")

\* first move of the current rollout, None if no move was made
FirstMove == IF Applies(calls) = <<>> THEN None ELSE Applies(calls)[1].move

\* slip: the move of the callee is passed up instead of the frame's own
sample_return_deeper(frame, callee) == [result |-> callee.result, move |-> callee.move]

\* slip: the result is negated on the way up, negamax style
sample_return_negated(frame, callee) == [result |-> -callee.result, move |-> frame.move]

\* line 39: the frame returns the callee's result with its own move.
sample_return(frame, callee) == [result |-> callee.result, move |-> frame.move]

\* lines 58-60: the loop calls _monte_carlo_sample(board_state, side).
FlatCall ==
    /\ pc = "flat_loop"
    /\ iter < number_of_samples
    /\ stack' = <<Frame(board_state, side)>>
    /\ calls' = <<>>
    /\ pc' = "sample"
    /\ UNCHANGED <<args, uctHistory, iter, ret, move, move_wins, move_samples, history,
                   uct, retval, err, selection>>

\* lines 21-23: the state is terminal.
SampleTerminal ==
    /\ pc = "sample"
    /\ sample_is_terminal(Top.board_state)
    /\ calls' = Append(calls, Call("has_winner", Top.board_state, None, 0))
    /\ ret' = [result |-> sample_leaf_result(Top.board_state), move |-> None]
    /\ stack' = Pop(stack)
    /\ pc' = "sample_ret"
    /\ winners' = IF has_winner(Top.board_state) = <<side>>
                  THEN winners \cup {FirstMove} ELSE winners
    /\ UNCHANGED <<args, uctHistory, iter, move, move_wins, move_samples, first_moves,
                   uct, retval, err, selection>>

\* lines 21-27: not terminal, no legal move.
SampleNoMoves ==
    /\ pc = "sample"
    /\ ~sample_is_terminal(Top.board_state)
    /\ sample_no_moves(Top.board_state)
    /\ calls' = calls \o << Call("has_winner", Top.board_state, None, 0),
                            Call("available_moves", Top.board_state, None, 0) >>
    /\ ret' = [result |-> sample_leaf_result(Top.board_state), move |-> None]
    /\ stack' = Pop(stack)
    /\ pc' = "sample_ret"
    /\ UNCHANGED <<args, uctHistory, iter, move, move_wins, move_samples, history,
                   uct, retval, err, selection>>

\* lines 21-38 (policy = False): random.choice and the recursive call.
SampleChoose ==
    /\ pc = "sample"
    /\ ~policy
    /\ ~sample_is_terminal(Top.board_state)
    /\ ~sample_no_moves(Top.board_state)
    /\ \E m \in Range(available_moves(Top.board_state)) :
          /\ calls' = calls \o << Call("has_winner", Top.board_state, None, 0),
                                  Call("available_moves", Top.board_state, None, 0),
                                  Call("apply_move", Top.board_state, m, Top.side) >>
          /\ stack' = Append([stack EXCEPT ![Len(stack)].move = m],
                             Frame(apply_move(Top.board_state, m, Top.side), -Top.side))
          /\ first_moves' = IF Len(stack) = 1 THEN first_moves \cup {m} ELSE first_moves
    /\ UNCHANGED <<args, uctHistory, pc, iter, ret, move, move_wins, move_samples, winners,
                   uct, retval, err, selection>>

\* line 34: the indices of the entries equal to 1
policy_indicated(v) == {i \in 1..Len(v) : v[i] = 1}

\* line 34: [...][0] is the first indicated index (from 0), decoded to a move
policy_decode(v) ==
    flat_move_to_tuple((CHOOSE i \in policy_indicated(v) :
                            \A j \in policy_indicated(v) : i <= j) - 1)

\* lines 21-38 (policy = True): the move is decoded from the policy's output
\* and applied; an output without a 1 raises IndexError on line 34.  The
\* output is logged in the `move` field of its call record.
SamplePolicy ==
    /\ pc = "sample"
    /\ policy
    /\ ~sample_is_terminal(Top.board_state)
    /\ ~sample_no_moves(Top.board_state)
    /\ \E v \in PolicyOutputs :
          LET log == calls \o << Call("has_winner", Top.board_state, None, 0),
                                 Call("available_moves", Top.board_state, None, 0),
                                 Call("get_stochastic_network_move", Top.board_state, v,
                                      Top.side) >>
          IN  IF policy_indicated(v) = {}
              THEN /\ err' = "IndexError"
                   /\ pc' = "raised"
                   /\ calls' = log
                   /\ UNCHANGED <<stack, first_moves>>
              ELSE IF Len(stack) >= MaxDepth
              THEN /\ err' = "RecursionError"
                   /\ pc' = "raised"
                   /\ calls' = log
                   /\ UNCHANGED <<stack, first_moves>>
              ELSE LET m == policy_decode(v) IN
                   /\ calls' = Append(log, Call("apply_move", Top.board_state, m, Top.side))
                   /\ stack' = Append([stack EXCEPT ![Len(stack)].move = m],
                                      Frame(apply_move(Top.board_state, m, Top.side),
                                            -Top.side))
                   /\ first_moves' = IF Len(stack) = 1 THEN first_moves \cup {m}
                                     ELSE first_moves
                   /\ UNCHANGED <<pc, err>>
    /\ UNCHANGED <<args, uctHistory, iter, ret, move, move_wins, move_samples, winners,
                   uct, retval, selection>>

\* lines 37-39: the recursive call returned; this frame returns.
SampleReturn ==
    /\ pc = "sample_ret"
    /\ stack # <<>>
    /\ ret' = sample_return(Top, ret)
    /\ stack' = Pop(stack)
    /\ UNCHANGED <<args, uctHistory, pc, iter, move, move_wins, move_samples, history,
                   uct, retval, err, calls, selection>>

----------------------------------------------------------------------------
(* monte_carlo_tree_search *)

\* slip: every rollout gets a win entry, a lost or drawn one of 0
flat_wins_always(mw, res, sd, mv) == DictAdd(mw, mv, IF res = sd THEN 1 ELSE 0)

\* slip: every decided rollout counts as a win
flat_wins_decided(mw, res, sd, mv) == IF res # 0 THEN DictAdd(mw, mv, 1) ELSE mw

\* lines 62-63
flat_wins(mw, res, sd, mv) == IF res = sd THEN DictAdd(mw, mv, 1) ELSE mw

\* slip: the sample counter is decremented
flat_samples_decrement(ms, mv) == DictAdd(ms, mv, -1)

\* line 64
flat_samples(ms, mv) == DictAdd(ms, mv, 1)

\* lines 59-64: the outermost frame returned; record the rollout.
FlatRecord ==
    /\ pc = "sample_ret"
    /\ stack = <<>>
    /\ move' = ret.move
    /\ move_wins' = flat_wins(move_wins, ret.result, side, ret.move)
    /\ move_samples' = flat_samples(move_samples, ret.move)
    /\ iter' = iter + 1
    /\ pc' = "flat_loop"
    /\ UNCHANGED <<args, uctHistory, stack, ret, history, uct, retval, err, calls, selection>>

\* line 67
flat_use_least_sampled(mw) == Len(mw) = 0

\* line 68
flat_least_sampled(ms) == PyMin(ms)

\* line 70: the divisor is move_samples[move], `move` being the local of the
\* enclosing function (the first move of the last rollout), not the lambda's x.
flat_best(mw, ms, mv) ==
    PyMax([i \in 1..Len(mw) |-> [k |-> mw[i].k, num |-> mw[i].v, den |-> DictGet(ms, mv)]])

\* lines 67-70
flat_select(mw, ms, mv) ==
    IF flat_use_least_sampled(mw) THEN flat_least_sampled(ms) ELSE flat_best(mw, ms, mv)

\* line 76: move_wins[move] / move_samples[move]
flat_confidence(mw, ms, mv) == [num |-> DictGet(mw, mv), den |-> DictGet(ms, mv), move |-> mv]

\* line 73: the width of the label vector
LabelWidth == 81

\* lines 73-75: the one-hot label vector of a move
label_vector(mv) ==
    [i \in 1..LabelWidth |-> IF i = tuple_move_to_flat(mv) + 1 THEN 1 ELSE 0]

\* line 76: the confidence with the move, or with its label vector if policy
flat_return(mw, ms, mv, pol) ==
    [flat_confidence(mw, ms, mv) EXCEPT !.move = IF pol THEN label_vector(mv) ELSE mv]

\* lines 65-76: select the move and return.  With policy = True the move is
\* encoded first (line 74), which raises TypeError for the move None of a
\* root on which no rollout made a move.
FlatSelect ==
    /\ pc = "flat_loop"
    /\ iter = number_of_samples
    /\ selection' = IF flat_use_least_sampled(move_wins) THEN "argmin" ELSE "argmax"
    /\ move' = flat_select(move_wins, move_samples, move)
    /\ IF policy /\ move' = None
       THEN /\ err' = "TypeError"
            /\ pc' = "raised"
            /\ UNCHANGED <<retval, move_wins>>
       ELSE /\ retval' = flat_return(move_wins, move_samples, move', policy)
            /\ move_wins' = DictTouch(move_wins, move')
            /\ pc' = "done"
            /\ UNCHANGED err
    /\ UNCHANGED <<args, uctHistory, iter, stack, ret, move_samples, history, uct, calls>>

----------------------------------------------------------------------------
(* monte_carlo_tree_search_uct *)

\* Floats of the UCT search are multiples of 1 / Scale: a result is halved
\* once per rollout_path entry, and a path is no longer than the game.
Scale == 2 ^ Len(Cells)

\* line 145: the divisor used for a child without samples (10e3).
FallbackDivisor == 10000

\* lines 108-109: the dict move -> resulting state, in available_moves order.
move_states_of(b, s) ==
    [i \in 1..Len(available_moves(b)) |->
        [k |-> available_moves(b)[i], v |-> apply_move(b, available_moves(b)[i], s)]]

\* game_spec calls made by lines 108-109.
move_states_calls(b, s) ==
    <<Call("available_moves", b, None, 0)>> \o
    [i \in 1..Len(available_moves(b)) |-> Call("apply_move", b, available_moves(b)[i], s)]

\* line 115: iterating the dict yields its keys, the moves; `_, state` unpacks
\* a move (row, col), so the value tested against state_samples is the
\* move's column, an int, which equals no board-state key.
all_children_sampled(ms, samples) ==
    \A i \in 1..Len(ms) : /\ ms[i].k[2] \notin Int
                          /\ DictHas(samples, ms[i].k[2])

\* slip: every entered state is appended, whatever the flag
path_after_always(path, unvisited, b, s) == Append(path, <<b, s>>)

\* lines 125-128: the path grows until the first state without a sample entry.
path_after(path, unvisited, b, s) == IF unvisited THEN Append(path, <<b, s>>) ELSE path

\* slip: the flag is never cleared
flag_after_never(unvisited, b, samples) == unvisited

\* lines 125-128
flag_after(unvisited, b, samples) == unvisited /\ DictHas(samples, b)

\* slip: the shift by .5 is left out
backup_result_unshifted(res, path_side) == (res * path_side) \div 2

\* slip: the result is not taken relative to the side of the entry
backup_result_noside(res, path_side) == (res \div 2) + (Scale \div 2)

\* lines 136-139: result *= path_side; result /= 2.; result += .5
\* (on the running value of `result`, scaled by Scale)
backup_result(res, path_side) == ((res * path_side) \div 2) + (Scale \div 2)

\* line 145: the key of a root move, as numerator and divisor
uct_key_num(results, child) == DictGet(results, child)

uct_key_den(samples, child) ==
    IF DictGet(samples, child) > 0 THEN DictGet(samples, child) ELSE FallbackDivisor

\* slip: the accumulated score is maximized, not the mean
uct_select_total(ms, results, samples) ==
    PyMax([i \in 1..Len(ms) |->
              [k |-> ms[i].k, num |-> uct_key_num(results, ms[i].v), den |-> 1]])

\* line 145
uct_select(ms, results, samples) ==
    PyMax([i \in 1..Len(ms) |->
              [k |-> ms[i].k, num |-> uct_key_num(results, ms[i].v),
               den |-> uct_key_den(samples, ms[i].v)]])

\* lines 100-105: start an iteration.
UctIterStart ==
    /\ pc = "uct_loop"
    /\ iter < number_of_samples
    /\ current_side' = side
    /\ current_board_state' = board_state
    /\ first_unvisited_node' = TRUE
    /\ rollout_path' = <<>>
    /\ result' = None
    /\ calls' = <<>>
    /\ pc' = "uct_while"
    /\ walk' = <<>>
    /\ descent' = NoDescent
    /\ iter_result' = 0
    /\ samples_at_start' = Len(state_samples)
    /\ UNCHANGED tally
    /\ UNCHANGED <<args, iter, flat, history, state_results, state_samples, path_idx,
                   retval, err, selection>>

\* lines 107-113: no legal move, the iteration is a draw.
UctNoMoves ==
    /\ pc = "uct_while"
    /\ move_states_of(current_board_state, current_side) = <<>>
    /\ calls' = calls \o move_states_calls(current_board_state, current_side)
    /\ result' = <<0>>
    /\ iter_result' = 0
    /\ path_idx' = 1
    /\ pc' = "uct_backup"
    /\ UNCHANGED <<walk, descent, tally, samples_at_start>>
    /\ UNCHANGED <<args, iter, flat, history, state_results, state_samples, current_side,
                   current_board_state, first_unvisited_node, rollout_path,
                   retval, err, selection>>

\* lines 107-132: one pass of the while loop from a state with legal moves.
\* The UCB1 branch calls max with a two-parameter key function, which raises
\* TypeError; the other branch is random.choice.
UctStep ==
    /\ pc = "uct_while"
    /\ move_states_of(current_board_state, current_side) # <<>>
    /\ LET ms == move_states_of(current_board_state, current_side) IN
       IF all_children_sampled(ms, state_samples)
       THEN /\ err' = "TypeError"
            /\ pc' = "raised"
            /\ calls' = calls \o move_states_calls(current_board_state, current_side)
            /\ descent' = [kind |-> "ucb", all_sampled |-> TRUE]
            /\ UNCHANGED <<uctLocals, walk, iter_result>>
       ELSE \E i \in 1..Len(ms) :
            LET next == ms[i].v IN
            /\ walk' = Append(walk, [board |-> next, side |-> current_side, move |-> ms[i].k])
            /\ descent' = [kind |-> "random",
                           all_sampled |-> \A j \in 1..Len(ms) : DictHas(state_samples, ms[j].v)]
            /\ iter_result' = IF has_winner(next) = None THEN iter_result
                              ELSE has_winner(next)[1]
            /\ current_board_state' = next
            /\ rollout_path' = path_after(rollout_path, first_unvisited_node, next, current_side)
            /\ first_unvisited_node' = flag_after(first_unvisited_node, next, state_samples)
            /\ current_side' = -current_side
            /\ result' = IF has_winner(next) = None THEN None
                         ELSE <<has_winner(next)[1] * Scale>>
            /\ calls' = calls \o move_states_calls(current_board_state, current_side)
                              \o <<Call("has_winner", next, None, 0)>>
            /\ path_idx' = 1
            /\ pc' = IF has_winner(next) = None THEN "uct_while" ELSE "uct_backup"
            /\ UNCHANGED err
    /\ UNCHANGED <<args, iter, flat, history, state_results, state_samples, retval,
                   selection, tally, samples_at_start>>

\* lines 134-140: back up into one entry of rollout_path.
UctBackup ==
    /\ pc = "uct_backup"
    /\ path_idx <= Len(rollout_path)
    /\ LET path_board_state == rollout_path[path_idx][1]
           path_side == rollout_path[path_idx][2]
           r == backup_result(result[1], path_side)
       IN  /\ state_samples' = DictAdd(state_samples, path_board_state, 1)
           /\ result' = <<r>>
           /\ state_results' = DictAdd(state_results, path_board_state, r)
    /\ path_idx' = path_idx + 1
    /\ UNCHANGED <<args, pc, iter, flat, history, uctHistory, current_side, current_board_state,
                   first_unvisited_node, rollout_path, retval, err, calls, selection>>

\* line 100: the backup loop is over, next iteration.
UctIterEnd ==
    /\ pc = "uct_backup"
    /\ path_idx > Len(rollout_path)
    /\ iter' = iter + 1
    /\ pc' = "uct_loop"
    /\ tally' = IF walk = <<>> THEN tally
                ELSE [tally EXCEPT ![walk[1].move] =
                        [n |-> @.n + 1,
                         w |-> @.w + (IF iter_result = side THEN 1 ELSE 0),
                         d |-> @.d + (IF iter_result = 0 THEN 1 ELSE 0)]]
    /\ walk' = <<>>
    /\ descent' = NoDescent
    /\ UNCHANGED <<args, flat, history, uct, iter_result, samples_at_start, retval, err,
                   calls, selection>>

\* the defaultdict reads of line 145 insert a default for every root child
touch_all(d, ms) ==
    LET RECURSIVE T(_, _)
        T(dd, i) == IF i > Len(ms) THEN dd ELSE T(DictTouch(dd, ms[i].v), i + 1)
    IN  T(d, 1)

\* lines 142-147: final selection and return.
UctSelect ==
    /\ pc = "uct_loop"
    /\ iter = number_of_samples
    /\ LET ms == move_states_of(board_state, side) IN
       /\ calls' = move_states_calls(board_state, side)
       /\ IF ms = <<>>
          THEN \* max() of an empty dict
               /\ err' = "ValueError"
               /\ pc' = "raised"
               /\ UNCHANGED <<move, retval, selection, state_results, state_samples>>
          ELSE LET mv == uct_select(ms, state_results, state_samples)
                   child == DictGet(ms, mv)
               IN  /\ selection' = "argmax"
                   /\ move' = mv
                   /\ state_results' = touch_all(state_results, ms)
                   /\ state_samples' = touch_all(state_samples, ms)
                   /\ IF DictGet(state_samples, child) = 0
                      THEN \* line 147: float division by zero
                           /\ err' = "ZeroDivisionError"
                           /\ pc' = "raised"
                           /\ UNCHANGED retval
                      ELSE /\ retval' = [num |-> DictGet(state_results, child),
                                         den |-> DictGet(state_samples, child) * Scale,
                                         move |-> mv]
                           /\ pc' = "done"
                           /\ UNCHANGED err
    /\ UNCHANGED <<args, iter, stack, ret, move_wins, move_samples, history, uctLocals,
                   uctHistory>>

----------------------------------------------------------------------------
Next ==
    \/ FlatCall
    \/ SampleTerminal
    \/ SampleNoMoves
    \/ SampleChoose
    \/ SampleReturn
    \/ FlatRecord
    \/ FlatSelect
    \/ UctIterStart
    \/ UctNoMoves
    \/ UctStep
    \/ UctBackup
    \/ UctIterEnd
    \/ UctSelect

Spec == Init /\ [][Next]_vars

\* the flat search with policy-guided rollouts
PolicyNext ==
    \/ FlatCall
    \/ SampleTerminal
    \/ SampleNoMoves
    \/ SamplePolicy
    \/ SampleReturn
    \/ FlatRecord
    \/ FlatSelect

PolicySpec == PolicyInit /\ [][PolicyNext]_vars

----------------------------------------------------------------------------
(* Properties *)

NonTerminalRoot == has_winner(board_state) = None /\ available_moves(board_state) # <<>>

LegalRootMoves == Range(available_moves(board_state))

RootChild(m) == apply_move(board_state, m, side)

\* C1: TreeSearch on a non-terminal root with a legal move returns normally
\* (raises nothing) and the move it returns is a legal move of the root.
C1_UctReturnsLegalMove ==
    (alg = "uct" /\ NonTerminalRoot) =>
        /\ pc # "raised"
        /\ pc = "done" => retval.move \in LegalRootMoves

\* C2: FlatSearch on a non-terminal root with a legal move returns a legal
\* move of the root that was the first move of one of the rollouts.
C2_FlatReturnsSampledLegalMove ==
    (alg = "flat" /\ NonTerminalRoot /\ pc = "done") =>
        /\ err = "none"
        /\ retval.move \in LegalRootMoves
        /\ retval.move \in first_moves

C2_Witness ==
    /\ alg = "flat" /\ NonTerminalRoot /\ pc = "done"
    /\ Cardinality(first_moves) >= 2
    /\ retval.move \in first_moves

\* C3: when a rollout was won by the searching side, FlatSearch returns a move
\* whose win rate wins / samples no other move exceeds.
C3_FlatMaximizesWinRate ==
    (alg = "flat" /\ pc = "done" /\ winners # {}) =>
        \A i \in 1..Len(move_samples) :
            DictGet(move_wins, move_samples[i].k) * DictGet(move_samples, retval.move)
              <= DictGet(move_wins, retval.move) * move_samples[i].v

\* C4: FlatSearch uses the least-sampled rule exactly when no move recorded a
\* win; the move it then returns has the least sample count, and is the first
\* encountered of the moves with that count.
C4_FlatLeastSampledFallback ==
    (alg = "flat" /\ pc = "done") =>
        /\ (selection = "argmin") = (\A i \in 1..Len(move_wins) : move_wins[i].v = 0)
        /\ selection \in {"argmin", "argmax"}
        /\ selection = "argmin" =>
              \E i \in 1..Len(move_samples) :
                  /\ move_samples[i].k = retval.move
                  /\ \A j \in 1..Len(move_samples) : move_samples[j].v >= move_samples[i].v
                  /\ \A j \in 1..(i - 1) : move_samples[j].v > move_samples[i].v

C4_Witness ==
    /\ alg = "flat" /\ pc = "done" /\ selection = "argmin"
    /\ Len(move_samples) >= 2
    /\ move_samples[1].v > move_samples[2].v
    /\ retval.move = move_samples[2].k

\* C5: the confidence FlatSearch returns is wins[move] / samples[move] of the
\* returned move, is 0 exactly when no rollout starting with that move was
\* won, and lies in [0, 1].
C5_FlatConfidence ==
    (alg = "flat" /\ pc = "done") =>
        /\ retval.move = move
        /\ retval.den > 0
        /\ retval.num * DictGet(move_samples, move) = DictGet(move_wins, move) * retval.den
        /\ (retval.num = 0) = (move \notin winners)
        /\ 0 <= retval.num /\ retval.num <= retval.den

C5_Witness ==
    /\ alg = "flat" /\ pc = "done"
    /\ 0 < retval.num /\ retval.num < retval.den

\* C6: TreeSearch never divides by a zero sample count: the child of the move
\* chosen by the final selection has a positive sample count.
C6_UctNoZeroDivisor ==
    (alg = "uct" /\ selection = "argmax") =>
        /\ err # "ZeroDivisionError"
        /\ DictGet(state_samples, RootChild(move)) > 0

\* the score of a root child in the final selection: results / samples, and
\* results / 10e3 for a child without samples (numerator and divisor)
ChildScoreNum(m) == DictGet(state_results, RootChild(m))

ChildScoreDen(m) ==
    IF DictGet(state_samples, RootChild(m)) > 0
    THEN DictGet(state_samples, RootChild(m)) * Scale
    ELSE FallbackDivisor * Scale

\* C7: whenever TreeSearch returns, the returned move maximizes the score of
\* the root's children, the returned confidence is results / samples of the
\* returned move's child, and it lies in [0, 1].
C7_UctFinalSelection ==
    (alg = "uct" /\ pc = "done") =>
        /\ retval.move \in LegalRootMoves
        /\ \A x \in LegalRootMoves :
              ChildScoreNum(x) * ChildScoreDen(retval.move)
                <= ChildScoreNum(retval.move) * ChildScoreDen(x)
        /\ retval.den > 0
        /\ retval.num * ChildScoreDen(retval.move) = ChildScoreNum(retval.move) * retval.den
        /\ retval.num * DictGet(state_samples, RootChild(retval.move)) * Scale
              = DictGet(state_results, RootChild(retval.move)) * retval.den
        /\ 0 <= retval.num /\ retval.num <= retval.den

C7_Witness ==
    /\ alg = "uct" /\ pc = "done"
    /\ 0 < retval.num /\ retval.num < retval.den
    /\ \E x \in LegalRootMoves :
          /\ DictGet(state_samples, RootChild(x)) > 0
          /\ ChildScoreNum(x) > ChildScoreNum(retval.move)
    /\ \E x \in LegalRootMoves : DictGet(state_samples, RootChild(x)) = 0

\* the board of the frame that makes no move in the current rollout
LeafBoard ==
    LET a == Applies(calls)
    IN  IF a = <<>> THEN board_state
        ELSE apply_move(a[Len(a)].board, a[Len(a)].move, a[Len(a)].side)

\* the frame that returned last is the one that made no move
LeafReturned == pc = "sample_ret" /\ Len(stack) = Len(Applies(calls))

\* C8: RolloutSampler never enumerates or applies a move on a terminal state;
\* on a terminal state it returns (result, None), and on a state that is not
\* terminal and has no legal move it returns (0, None) without a further call.
C8_SamplerShortCircuits ==
    alg = "flat" =>
        /\ \A i \in 1..Len(calls) :
              calls[i].op \in {"available_moves", "apply_move"}
                 => has_winner(calls[i].board) = None
        /\ LeafReturned =>
              /\ \A i \in 1..Len(calls) : calls[i].op = "apply_move" => calls[i].board # LeafBoard
              /\ has_winner(LeafBoard) # None =>
                    /\ ret = [result |-> has_winner(LeafBoard)[1], move |-> None]
                    /\ calls[Len(calls)] = Call("has_winner", LeafBoard, None, 0)
              /\ has_winner(LeafBoard) = None =>
                    /\ available_moves(LeafBoard) = <<>>
                    /\ ret = [result |-> 0, move |-> None]
                    /\ calls[Len(calls)] = Call("available_moves", LeafBoard, None, 0)

C8_Witness ==
    /\ alg = "flat" /\ LeafReturned
    /\ has_winner(LeafBoard) # None
    /\ available_moves(LeafBoard) # <<>>
    /\ Len(Applies(calls)) >= 1

C8_WitnessNoMoves ==
    /\ alg = "flat" /\ LeafReturned
    /\ has_winner(LeafBoard) = None
    /\ Len(Applies(calls)) >= 1

\* C9: a RolloutSampler frame entered on a non-terminal state with a legal
\* move returns the move it chose itself, a legal move of its state and not
\* one chosen deeper, with the result of the state the trajectory ends in;
\* the trajectory starts at the root and alternates sides.
C9_SamplerResultPairing ==
    (alg = "flat" /\ pc = "sample_ret" /\ Len(stack) < Len(Applies(calls))) =>
        LET a == Applies(calls)
            d == Len(stack) + 1
        IN  /\ ret.move = a[d].move
            /\ has_winner(a[d].board) = None
            /\ ret.move \in Range(available_moves(a[d].board))
            /\ \A j \in (d + 1)..Len(a) : a[j].move # ret.move
            /\ ret.result = (IF has_winner(LeafBoard) # None THEN has_winner(LeafBoard)[1] ELSE 0)
            /\ has_winner(LeafBoard) = None => available_moves(LeafBoard) = <<>>
            /\ a[1].board = board_state /\ a[1].side = side
            /\ \A j \in 1..(Len(a) - 1) :
                  /\ a[j + 1].side = -a[j].side
                  /\ a[j + 1].board = apply_move(a[j].board, a[j].move, a[j].side)

C9_Witness ==
    /\ alg = "flat" /\ pc = "sample_ret" /\ stack = <<>>
    /\ Len(Applies(calls)) >= 3
    /\ ret.result = side
    /\ ret.move = Applies(calls)[1].move

\* C10: on a terminal root neither search applies a move to the root state
\* or runs a selection (argmax / argmin) over the statistics.
C10_TerminalRootShortCircuits ==
    has_winner(board_state) # None =>
        /\ \A i \in 1..Len(calls) :
              calls[i].op = "apply_move" => calls[i].board # board_state
        /\ selection = "none"
\* C12: a UCT decision point at which every child state has a sample entry
\* takes the UCB1 branch, and a random child is taken only when some child
\* has no sample entry.
C12_UctDescentPolicy ==
    (alg = "uct" /\ descent.kind # "none") =>
        (descent.kind = "ucb") = descent.all_sampled

\* C13: the score added for every rollout_path entry, the second and later
\* ones included, is (r * path_side) / 2 + 0.5 for the terminal result r of
\* the iteration, hence one of 0, 0.5, 1.
C13_UctBackupScore ==
    (alg = "uct" /\ pc = "uct_backup" /\ path_idx > 1) =>
        /\ result[1] = ((iter_result * rollout_path[path_idx - 1][2] * Scale) \div 2)
                          + (Scale \div 2)
        /\ result[1] \in {0, Scale \div 2, Scale}

\* C14: every score added to state_results lies in [0, 1], and
\* 0 <= state_results[s] <= state_samples[s] for every state s of the table.
C14_UctNormalized ==
    alg = "uct" =>
        /\ (pc = "uct_backup" /\ path_idx > 1) => (0 <= result[1] /\ result[1] <= Scale)
        /\ \A i \in 1..Len(state_results) :
              /\ 0 <= state_results[i].v
              /\ state_results[i].v <= DictGet(state_samples, state_results[i].k) * Scale

C14_Witness ==
    /\ alg = "uct"
    /\ \E i \in 1..Len(state_results) :
          /\ state_results[i].v % (Scale \div 2) # 0
          /\ DictGet(state_samples, state_results[i].k) >= 2

\* the walk up to and including its first state without a sample entry
TrackedPrefix ==
    LET fresh == {i \in 1..Len(walk) : ~DictHas(state_samples, walk[i].board)}
        n == IF fresh = {} THEN Len(walk) ELSE CHOOSE i \in fresh : \A j \in fresh : i <= j
    IN  [i \in 1..n |-> <<walk[i].board, walk[i].side>>]

\* C15: during the walk of an iteration rollout_path is the sequence of the
\* entered states, from the chosen root child up to and including the first
\* one without a sample entry, each with the side that moved into it; every
\* entry but the last had a sample entry.
C15_UctPathTracking ==
    (alg = "uct" /\ (pc = "uct_while" \/ (pc = "uct_backup" /\ path_idx = 1))) =>
        /\ rollout_path = TrackedPrefix
        /\ \A i \in 1..(Len(rollout_path) - 1) : DictHas(state_samples, rollout_path[i][1])
        /\ \A i \in 1..Len(walk) :
              /\ walk[i].side = (IF i = 1 THEN side ELSE -walk[i - 1].side)
              /\ walk[i].board = apply_move(IF i = 1 THEN board_state ELSE walk[i - 1].board,
                                            walk[i].move, walk[i].side)

C15_Witness ==
    /\ alg = "uct" /\ pc = "uct_backup" /\ path_idx = 1
    /\ Len(rollout_path) >= 2
    /\ Len(walk) > Len(rollout_path)

\* one step of a table of sample counts: no key is lost, no count is
\* negative, and a count stays or grows by exactly 1
CountsStep(d, e) ==
    /\ \A i \in 1..Len(d) : DictHas(e, d[i].k)
    /\ \A i \in 1..Len(e) : /\ e[i].v >= 0
                            /\ e[i].v - DictGet(d, e[i].k) \in {0, 1}

\* C17: in every step of a search the sample count of every key (move or
\* board state) stays or grows by exactly 1 and is never negative.
C17_SampleCountsMonotone ==
    [][CountsStep(move_samples, move_samples') /\ CountsStep(state_samples, state_samples')]_vars

C17_Witness ==
    /\ alg = "flat"
    /\ Len(move_samples) >= 2
    /\ \E i \in 1..Len(move_samples) : move_samples[i].v >= 2

\* number of completed iterations that are counted in tally
TallyTotal ==
    LET RECURSIVE S(_)
        S(i) == IF i = 0 THEN 0 ELSE tally[Cells[i]].n + S(i - 1)
    IN  S(Len(Cells))

\* C18: between iterations, for a non-terminal root with legal moves, every
\* root child c has state_samples[c] = number of iterations that started with
\* the move to c, these counts sum to the number of iterations, and
\* state_results[c] = W + D / 2 for the won and drawn ones among them.
C18_UctRootTallies ==
    (alg = "uct" /\ NonTerminalRoot /\ pc \notin {"uct_while", "uct_backup"}) =>
        /\ TallyTotal = iter
        /\ \A m \in LegalRootMoves :
              /\ DictGet(state_samples, RootChild(m)) = tally[m].n
              /\ 2 * DictGet(state_results, RootChild(m))
                    = (2 * tally[m].w + tally[m].d) * Scale
        /\ \A m \in CellSet \ LegalRootMoves : tally[m].n = 0

C18_Witness ==
    /\ alg = "uct" /\ NonTerminalRoot /\ pc = "uct_loop" /\ side = -1
    /\ iter >= 3
    /\ \E m \in LegalRootMoves : tally[m].w >= 1 /\ tally[m].d >= 1
    /\ Cardinality({m \in LegalRootMoves : tally[m].n >= 1}) >= 2

\* C19: an iteration adds at most one key to state_samples; after k completed
\* iterations at most k states have a sample entry, and state_samples and
\* state_results have the same keys.
C19_UctOneNodePerIteration ==
    (alg = "uct" /\ pc \in {"uct_loop", "uct_while", "uct_backup"}) =>
        /\ Len(state_samples) <= samples_at_start + 1
        /\ pc = "uct_loop" =>
              /\ Len(state_samples) <= iter
              /\ {state_samples[i].k : i \in 1..Len(state_samples)}
                    = {state_results[i].k : i \in 1..Len(state_results)}

C19_Witness ==
    /\ alg = "uct" /\ pc = "uct_loop"
    /\ iter >= 3
    /\ Len(state_samples) = iter

\* sum of the values of a dict
DictSum(d) ==
    LET RECURSIVE S(_)
        S(i) == IF i = 0 THEN 0 ELSE d[i].v + S(i - 1)
    IN  S(Len(d))

\* C20: after k rollouts of FlatSearch from a non-terminal root the sample
\* counts sum to k, every move with a win entry has a sample entry, and
\* 1 <= wins[m] <= samples[m] for it.
C20_FlatTableConsistency ==
    (alg = "flat" /\ NonTerminalRoot /\ pc # "done") =>
        /\ DictSum(move_samples) = iter
        /\ \A i \in 1..Len(move_wins) :
              /\ DictHas(move_samples, move_wins[i].k)
              /\ 1 <= move_wins[i].v
              /\ move_wins[i].v <= DictGet(move_samples, move_wins[i].k)

C20_Witness ==
    /\ alg = "flat" /\ NonTerminalRoot /\ pc = "flat_loop"
    /\ iter >= 3
    /\ Len(move_wins) >= 2
    /\ \E i \in 1..Len(move_wins) : move_wins[i].v < DictGet(move_samples, move_wins[i].k)
\* C16: in the finite game every rollout and every UCT iteration ends after
\* at most one move per cell, no step of a running search is stuck, and a
\* search on a non-terminal root runs exactly number_of_samples iterations
\* and then returns (it raises nothing).
C16_TerminatesAndReturns ==
    /\ Len(stack) <= Len(Cells) + 1
    /\ Len(walk) <= Len(Cells)
    /\ iter <= number_of_samples
    /\ pc \notin {"done", "raised"} => ENABLED Next
    /\ NonTerminalRoot =>
          /\ pc # "raised"
          /\ pc = "done" => iter = number_of_samples
\* C11: every move passed to apply_move is a legal move of the state it is
\* applied to, and a move decoded from a policy output is applied only if the
\* output indicates exactly one move, a legal one.
C11_OnlyLegalMovesApplied ==
    \A i \in 1..Len(calls) :
        calls[i].op = "apply_move" =>
            /\ calls[i].move \in Range(available_moves(calls[i].board))
            /\ policy =>
                  /\ calls[i - 1].op = "get_stochastic_network_move"
                  /\ Cardinality(policy_indicated(calls[i - 1].move)) = 1
====
